---- MODULE Spec2Model ----
(***************************************************************************)
(* videogrep: transcript search and composition building.                  *)
(*                                                                         *)
(* Model of src/videogrep/videogrep.py: search (sentence, fragment, mash), *)
(* content_aware_segments, remove_overlaps, pad_and_sync and the steps of  *)
(* videogrep() that build the composition.                                 *)
(*                                                                         *)
(* Times are integers (one tick = half a second, so that the padding 0.5   *)
(* of the documentation is the tick 1).  Text is a sequence of one         *)
(* character strings, so that lower(), strip(), split(" "), " ".join and   *)
(* re.search on literal patterns are computed character by character.      *)
(***************************************************************************)
EXTENDS Integers, Sequences, FiniteSets

VARIABLES
    pc,             \* position: which call has just returned / which step of videogrep is next
    disk,           \* file name -> transcript found by parse_transcript (search's environment)
    files,          \* search(files=...)
    query,          \* search(query=...), a list of strings
    search_type,    \* search(search_type=...)
    word_content,   \* lines of word_file ([] when no word_file is given)
    context_aware,  \* search(context_aware=...)
    in_segments,    \* the list handed to pad_and_sync / remove_overlaps
    padding,        \* pad_and_sync(padding=...)
    resync,         \* pad_and_sync(resync=...)
    random_order,   \* videogrep(random_order=...)
    maxclips,       \* videogrep(maxclips=...)
    segments,       \* the list returned by the last call (videogrep's local `segments`)
    raised,         \* "none", or the exception that ended the call
    exporter,       \* the exporter videogrep handed the composition to ("none" before)
    ret,            \* videogrep's return value ("none" while it has not returned)
    demo,           \* videogrep(demo=...)
    export_clips,   \* videogrep(export_clips=...)
    output,         \* videogrep(output=...), by the ending of the file name
    outfile         \* the entries an exporter wrote to the output file

vars == <<pc, disk, files, query, search_type, word_content, context_aware,
          in_segments, padding, resync, random_order, maxclips, segments, raised,
          exporter, ret, demo, export_clips, output, outfile>>

----------------------------------------------------------------------------
(* Bounds of the model *)

\* segment times handed directly to the normalizers: 0..MaxTime
MaxTime == 2
\* length of a list handed directly to the normalizers
MaxSegs == 2
\* padding: 0..MaxPad
MaxPad == 1
\* resync: -MaxShift..MaxShift
MaxShift == 1
\* length of the list of input files
MaxFiles == 2
\* length of the list of queries
MaxQueries == 1
\* maxclips: 0..MaxClips
MaxClips == 2
\* longest list whose shuffle is enumerated
MaxShuffle == 3

(* Program constant *)

BATCH_SIZE == 20

----------------------------------------------------------------------------
(* Text *)

LowerChar(c) == IF c = "A" THEN "a" ELSE IF c = "B" THEN "b" ELSE c

\* str.lower()
Lower(s) == [i \in DOMAIN s |-> LowerChar(s[i])]

IsSpace(c) == c \in {" ", "\t"}

RECURSIVE LStrip(_)
LStrip(s) == IF s # <<>> /\ IsSpace(Head(s)) THEN LStrip(Tail(s)) ELSE s

RECURSIVE RStrip(_)
RStrip(s) == IF s # <<>> /\ IsSpace(s[Len(s)]) THEN RStrip(SubSeq(s, 1, Len(s) - 1)) ELSE s

\* str.strip()
Strip(s) == RStrip(LStrip(s))

\* re.search(p, t) for a pattern p without metacharacters: p occurs in t
ReSearch(p, t) == \E i \in 0..(Len(t) - Len(p)) : SubSeq(t, i + 1, i + Len(p)) = p

\* str.split(" "): the pieces between single space characters (empty pieces kept)
RECURSIVE SplitAcc(_, _, _)
SplitAcc(s, cur, acc) ==
    IF s = <<>> THEN Append(acc, cur)
    ELSE IF Head(s) = " " THEN SplitAcc(Tail(s), <<>>, Append(acc, cur))
    ELSE SplitAcc(Tail(s), Append(cur, Head(s)), acc)

Split(s) == SplitAcc(s, <<>>, <<>>)

\* " ".join(ws)
RECURSIVE Join(_)
Join(ws) ==
    IF ws = <<>> THEN <<>>
    ELSE IF Len(ws) = 1 THEN ws[1]
    ELSE ws[1] \o <<" ">> \o Join(Tail(ws))

----------------------------------------------------------------------------
(* Segments *)

Seg(f, s, e, c) ==
    [file |-> f, start |-> s, end |-> e, content |-> c,
     content_aware |-> FALSE, position |-> "none"]

CtxSeg(f, s, e, c, pos) ==
    [file |-> f, start |-> s, end |-> e, content |-> c,
     content_aware |-> TRUE, position |-> pos]

\* sorted(segments, key=lambda k: k["start"]): stable, ascending
RECURSIVE InsertByStart(_, _)
InsertByStart(sorted, x) ==
    IF sorted = <<>> THEN <<x>>
    ELSE IF sorted[Len(sorted)].start <= x.start THEN Append(sorted, x)
    ELSE Append(InsertByStart(SubSeq(sorted, 1, Len(sorted) - 1), x), sorted[Len(sorted)])

RECURSIVE SortAcc(_, _)
SortAcc(rest, sorted) ==
    IF rest = <<>> THEN sorted ELSE SortAcc(Tail(rest), InsertByStart(sorted, Head(rest)))

SortByStart(segs) == SortAcc(segs, <<>>)

----------------------------------------------------------------------------
(* Interval normalizer *)

SetEnd(out, e) == [out EXCEPT ![Len(out)].end = e]

\* remove_overlaps, the loop body (lines 130-137)
OverlapStep(out, segment) ==
    IF out[Len(out)].end >= segment.start
    THEN SetEnd(out, segment.end)
    ELSE Append(out, segment)

RECURSIVE OverlapLoop(_, _)
OverlapLoop(out, rest) ==
    IF rest = <<>> THEN out ELSE OverlapLoop(OverlapStep(out, Head(rest)), Tail(rest))

remove_overlaps(segs) ==
    IF Len(segs) = 0 THEN <<>>
    ELSE LET sorted == SortByStart(segs)
         IN  OverlapLoop(<<sorted[1]>>, Tail(sorted))

\* the first loop body without the clamp of `end` (lines 167-168 left out)
PadShiftClampStartOnly(s, pad, shift) ==
    LET s1 == IF pad # 0 THEN [s EXCEPT !.start = @ - pad, !.end = @ + pad] ELSE s
        s2 == IF shift # 0 THEN [s1 EXCEPT !.start = @ + shift, !.end = @ + shift] ELSE s1
    IN  IF s2.start < 0 THEN [s2 EXCEPT !.start = 0] ELSE s2

\* pad_and_sync, the first loop body (lines 157-168)
PadShiftClamp(s, pad, shift) ==
    LET s1 == IF pad # 0 THEN [s EXCEPT !.start = @ - pad, !.end = @ + pad] ELSE s
        s2 == IF shift # 0 THEN [s1 EXCEPT !.start = @ + shift, !.end = @ + shift] ELSE s1
        s3 == IF s2.start < 0 THEN [s2 EXCEPT !.start = 0] ELSE s2
    IN  IF s3.end < 0 THEN [s3 EXCEPT !.end = 0] ELSE s3

Adjusted(segs, pad, shift) == [i \in DOMAIN segs |-> PadShiftClamp(segs[i], pad, shift)]

\* the merge without the test of the file (as remove_overlaps merges)
MergeStepNoFileCheck(out, segment) == OverlapStep(out, segment)

\* pad_and_sync, the second loop body (lines 171-183)

MergeStep(out, segment) ==
    IF segment.file # out[Len(out)].file THEN Append(out, segment)
    ELSE IF out[Len(out)].end >= segment.start THEN SetEnd(out, segment.end)
    ELSE Append(out, segment)

RECURSIVE MergeLoop(_, _)
MergeLoop(out, rest) ==
    IF rest = <<>> THEN out ELSE MergeLoop(MergeStep(out, Head(rest)), Tail(rest))

\* pad_and_sync sorting its input first, as remove_overlaps does
pad_and_sync_sorted(segs, pad, shift) ==
    IF Len(segs) = 0 THEN <<>>
    ELSE LET adj == SortByStart(Adjusted(segs, pad, shift))
         IN  MergeLoop(<<adj[1]>>, Tail(adj))

pad_and_sync(segs, pad, shift) ==
    IF Len(segs) = 0 THEN <<>>
    ELSE LET adj == Adjusted(segs, pad, shift)
         IN  MergeLoop(<<adj[1]>>, Tail(adj))

----------------------------------------------------------------------------
(* Transcripts: what parse_transcript returns for a file *)

Word(w, s, e) == [word |-> w, start |-> s, end |-> e]

\* a line of a transcript with word-level timing (the "words" key is present)
WordedLine(ws) ==
    [start |-> ws[1].start, end |-> ws[Len(ws)].end,
     content |-> Join([i \in DOMAIN ws |-> ws[i].word]),
     has_words |-> TRUE, words |-> ws]

\* a line of a transcript without word-level timing (.srt, .vtt)
PlainLine(s, e, c) == [start |-> s, end |-> e, content |-> c, has_words |-> FALSE, words |-> <<>>]

NoTranscript == [found |-> FALSE, lines |-> <<>>]
Transcript(ls) == [found |-> TRUE, lines |-> ls]

JsonTranscript ==
    Transcript(<<WordedLine(<<Word(<<"a">>, 0, 1), Word(<<"a", "b">>, 1, 2)>>),
                 WordedLine(<<Word(<<"a">>, 3, 4)>>)>>)

JsonTranscript2 ==
    Transcript(<<WordedLine(<<Word(<<"A">>, 0, 0), Word(<<"b">>, 1, 1)>>)>>)

SrtTranscript ==
    Transcript(<<PlainLine(0, 1, <<"a">>),
                 PlainLine(2, 3, <<"a", " ", "b">>),
                 PlainLine(4, 5, <<"b", " ", "a">>)>>)

EmptyTranscript == Transcript(<<>>)

\* word-level timing on the first line only
PartlyWordedTranscript ==
    Transcript(<<WordedLine(<<Word(<<"a">>, 0, 1)>>), PlainLine(2, 3, <<"a">>)>>)

TranscriptChoices ==
    {NoTranscript, JsonTranscript, JsonTranscript2, SrtTranscript, EmptyTranscript,
     PartlyWordedTranscript}

FileNames == {"a", "b"}
Disks == [FileNames -> TranscriptChoices]

QueryStrings ==
    {<<"a">>, <<"A">>, <<"a", " ", "b">>, <<"a", " ", "a">>, <<"a", " ", " ", "b">>,
     <<"a", "\t", "b">>}

WordFiles == {<<>>, <<<<"b">>>>}
SearchTypes == {"sentence", "fragment", "mash"}

----------------------------------------------------------------------------
(* Context expander *)

\* list.insert(i, x), i >= 0 counted from 0
ListInsert(l, i, x) ==
    IF i >= Len(l) THEN Append(l, x)
    ELSE SubSeq(l, 1, i) \o <<x>> \o SubSeq(l, i + 1, Len(l))

HasStart(segs, t) == \E i \in DOMAIN segs : segs[i].start = t

\* transcript[i] for a Python index i >= -1 (transcript[-1] is the last line)
PyLine(T, i) == IF i < 0 THEN T[Len(T) + 1 + i] ELSE T[i + 1]

Ok(segs) == [raised |-> "none", segments |-> segs]
Raise(e) == [raised |-> e, segments |-> <<>>]

\* content_aware_segments(segments, transcript, file, idx), idx counted from 0;
\* segments is never empty here (the matched line was appended just before)
content_aware_segments(segs, T, file, idx) ==
    LET s1 == IF ~HasStart(segs, PyLine(T, idx - 1).start)
              THEN ListInsert(segs, IF idx = 0 THEN 0 ELSE idx - 1,
                              CtxSeg(file, PyLine(T, idx).start, PyLine(T, idx).end,
                                     PyLine(T, idx).content, "before"))
              ELSE segs
    IN  IF idx + 1 >= Len(T) THEN Raise("IndexError")
        ELSE IF ~HasStart(s1, PyLine(T, idx + 1).start)
        THEN Ok(ListInsert(s1, idx + 1,
                           CtxSeg(file, PyLine(T, idx + 1).start, PyLine(T, idx + 1).end,
                                  PyLine(T, idx + 1).content, "after")))
        ELSE Ok(s1)

----------------------------------------------------------------------------
(* Search engine *)

\* sentence mode: the patterns tried on line idx, in order (lines 265-293)
RECURSIVE SentencePatterns(_, _, _, _, _, _)
SentencePatterns(segs, T, file, idx, pats, ctx) ==
    IF pats = <<>> THEN Ok(segs)
    ELSE IF ReSearch(Strip(Lower(Head(pats))), PyLine(T, idx).content)
    THEN LET line == PyLine(T, idx)
             hit == Append(segs, Seg(file, line.start, line.end, line.content))
             r == IF ctx THEN content_aware_segments(hit, T, file, idx) ELSE Ok(hit)
         IN  IF r.raised # "none" THEN r
             ELSE SentencePatterns(r.segments, T, file, idx, Tail(pats), ctx)
    ELSE SentencePatterns(segs, T, file, idx, Tail(pats), ctx)

\* sentence mode: the scan of the lines (line 264)
RECURSIVE SentenceLines(_, _, _, _, _, _, _)
SentenceLines(segs, T, file, idx, q, wc, ctx) ==
    IF idx >= Len(T) THEN Ok(segs)
    ELSE LET r == SentencePatterns(segs, T, file, idx, q \o wc, ctx)
         IN  IF r.raised # "none" THEN r
             ELSE SentenceLines(r.segments, T, file, idx + 1, q, wc, ctx)

\* words += line["words"] for every line (lines 300-302, 328-330)
RECURSIVE WordStream(_)
WordStream(T) == IF T = <<>> THEN <<>> ELSE Head(T).words \o WordStream(Tail(T))

AllWorded(T) == \A i \in DOMAIN T : T[i].has_words

\* [q.strip() for q in queries if q.strip() != ""] (line 306)
RECURSIVE StripNonEmpty(_)
StripNonEmpty(qs) ==
    IF qs = <<>> THEN <<>>
    ELSE (IF Strip(Head(qs)) # <<>> THEN <<Strip(Head(qs))>> ELSE <<>>)
         \o StripNonEmpty(Tail(qs))

FragmentTerms(q) == StripNonEmpty(Split(q))

FragmentFound(terms, words, j) ==
    \A i \in 1..Len(terms) : ReSearch(terms[i], words[j + i].word)

FragmentSeg(file, words, j, k) ==
    Seg(file, words[j + 1].start, words[j + k].end,
        Join([i \in 1..k |-> words[j + i].word]))

\* fragment mode: the windows of one query, window j covers words j+1..j+k (lines 307-321)
RECURSIVE FragmentWindows(_, _, _, _, _)
FragmentWindows(segs, file, words, terms, j) ==
    IF Len(terms) = 0 \/ j + Len(terms) > Len(words) THEN segs
    ELSE FragmentWindows(
            IF FragmentFound(terms, words, j)
            THEN Append(segs, FragmentSeg(file, words, j, Len(terms))) ELSE segs,
            file, words, terms, j + 1)

\* fragment mode: the queries (line 304)
RECURSIVE FragmentQueries(_, _, _, _)
FragmentQueries(segs, file, words, qs) ==
    IF qs = <<>> THEN segs
    ELSE FragmentQueries(FragmentWindows(segs, file, words, FragmentTerms(Head(qs)), 0),
                         file, words, Tail(qs))

\* [w for w in words if w["word"].lower() == q.lower()] (line 336)
RECURSIVE MashMatches(_, _)
MashMatches(words, q) ==
    IF words = <<>> THEN <<>>
    ELSE (IF Lower(Head(words).word) = Lower(q) THEN <<Head(words)>> ELSE <<>>)
         \o MashMatches(Tail(words), q)

\* all sub-terms of all queries, in the order of the two loops (lines 332-335)
RECURSIVE MashTerms(_)
MashTerms(qs) == IF qs = <<>> THEN <<>> ELSE Split(Head(qs)) \o MashTerms(Tail(qs))

\* mash mode: the results the random choice of one match per sub-term allows;
\* kind "abort" is the `return []` of line 339
RECURSIVE MashPick(_, _, _, _)
MashPick(segs, file, words, terms) ==
    IF terms = <<>> THEN {[kind |-> "ok", segments |-> segs]}
    ELSE LET matches == MashMatches(words, Head(terms))
         IN  IF Len(matches) = 0 THEN {[kind |-> "abort", segments |-> <<>>]}
             ELSE UNION {MashPick(Append(segs, Seg(file, matches[i].start, matches[i].end,
                                                   matches[i].word)),
                                  file, words, Tail(terms)) : i \in DOMAIN matches}

\* the body of `for file in files` for a file with a transcript (lines 263-351):
\* the set of its possible results, each the sorted segments of the file ("ok"),
\* a skipped file ("skip"), search's early return ("abort") or an exception
FileOutcomes(file, T, q, st, wc, ctx) ==
    IF st = "sentence"
    THEN LET r == SentenceLines(<<>>, T, file, 0, q, wc, ctx)
         IN  {IF r.raised # "none" THEN [kind |-> r.raised, segments |-> <<>>]
              ELSE [kind |-> "ok", segments |-> SortByStart(r.segments)]}
    ELSE IF Len(T) = 0 THEN {[kind |-> "IndexError", segments |-> <<>>]}
    ELSE IF ~T[1].has_words THEN {[kind |-> "skip", segments |-> <<>>]}
    ELSE IF ~AllWorded(T) THEN {[kind |-> "KeyError", segments |-> <<>>]}
    ELSE IF st = "fragment"
    THEN {[kind |-> "ok",
           segments |-> SortByStart(FragmentQueries(<<>>, file, WordStream(T), q))]}
    ELSE {[kind |-> o.kind, segments |-> SortByStart(o.segments)] :
            o \in MashPick(<<>>, file, WordStream(T), MashTerms(q))}

\* search(): the loop over the files (lines 252-355), all_segments = acc
RECURSIVE SearchFiles(_, _, _, _, _, _, _)
SearchFiles(acc, d, fl, q, st, wc, ctx) ==
    IF fl = <<>> THEN {Ok(acc)}
    ELSE IF ~d[Head(fl)].found THEN SearchFiles(acc, d, Tail(fl), q, st, wc, ctx)
    ELSE UNION {
            IF o.kind \in {"ok", "skip"}
            THEN SearchFiles(acc \o o.segments, d, Tail(fl), q, st, wc, ctx)
            ELSE IF o.kind = "abort" THEN {Ok(<<>>)}
            ELSE {Raise(o.kind)} :
            o \in FileOutcomes(Head(fl), d[Head(fl)].lines, q, st, wc, ctx)}

search(d, fl, q, st, wc, ctx) == SearchFiles(<<>>, d, fl, q, st, wc, ctx)

----------------------------------------------------------------------------
(* Inputs *)

NormFiles == {"a", "b"}
Times == 0..MaxTime
Paddings == 0..MaxPad
Resyncs == (-MaxShift)..MaxShift

Text == <<"a">>

ListsOf(S, n) == UNION {[1..k -> S] : k \in 0..n}

NormSegs == {Seg(f, s, e, Text) : f \in NormFiles, s \in Times, e \in Times}

----------------------------------------------------------------------------
(* State machine *)

NoDisk == [f \in {} |-> <<>>]

Init ==
    /\ pc = "idle"
    /\ disk = NoDisk
    /\ files = <<>>
    /\ query = <<>>
    /\ search_type = "sentence"
    /\ word_content = <<>>
    /\ context_aware = FALSE
    /\ in_segments = <<>>
    /\ padding = 0
    /\ resync = 0
    /\ random_order = FALSE
    /\ maxclips = 0
    /\ segments = <<>>
    /\ raised = "none"
    /\ exporter = "none"
    /\ ret = "none"
    /\ demo = FALSE
    /\ export_clips = FALSE
    /\ output = ".mp4"
    /\ outfile = <<>>

\* a direct call pad_and_sync(segs, pad, shift)
CallPadAndSync ==
    /\ pc = "idle"
    /\ \E segs \in ListsOf(NormSegs, MaxSegs), pad \in Paddings, shift \in Resyncs :
        /\ in_segments' = segs
        /\ padding' = pad
        /\ resync' = shift
        /\ segments' = pad_and_sync(segs, pad, shift)
    /\ pc' = "pad_and_sync"
    /\ UNCHANGED <<disk, files, query, search_type, word_content, context_aware,
                   random_order, maxclips, raised, exporter, ret,
                   demo, export_clips, output, outfile>>

\* a second call of pad_and_sync, on the list the first call returned
CallPadAndSyncAgain ==
    /\ pc = "pad_and_sync"
    /\ in_segments' = segments
    /\ segments' = pad_and_sync(segments, padding, resync)
    /\ pc' = "pad_and_sync_again"
    /\ UNCHANGED <<disk, files, query, search_type, word_content, context_aware,
                   padding, resync, random_order, maxclips, raised, exporter, ret,
                   demo, export_clips, output, outfile>>

\* a direct call remove_overlaps(segs)
CallRemoveOverlaps ==
    /\ pc = "idle"
    /\ \E segs \in ListsOf(NormSegs, MaxSegs) :
        /\ in_segments' = segs
        /\ segments' = remove_overlaps(segs)
    /\ pc' = "remove_overlaps"
    /\ UNCHANGED <<disk, files, query, search_type, word_content, context_aware,
                   padding, resync, random_order, maxclips, raised, exporter, ret,
                   demo, export_clips, output, outfile>>

\* a call search(files, query, search_type, word_file, context_aware), which is
\* also the first statement of videogrep() (line 583); word_file and
\* context_aware are read in sentence mode only
Search ==
    /\ pc = "idle"
    /\ \E d \in Disks, fl \in ListsOf(FileNames, MaxFiles),
          q \in ListsOf(QueryStrings, MaxQueries), st \in SearchTypes,
          wc \in WordFiles, ctx \in BOOLEAN :
        /\ st # "sentence" => (wc = <<>> /\ ctx = FALSE)
        /\ disk' = d
        /\ files' = fl
        /\ query' = q
        /\ search_type' = st
        /\ word_content' = wc
        /\ context_aware' = ctx
        /\ \E r \in search(d, fl, q, st, wc, ctx) :
            /\ segments' = r.segments
            /\ raised' = r.raised
    /\ pc' = "search"
    /\ UNCHANGED <<in_segments, padding, resync, random_order, maxclips, exporter, ret,
                   demo, export_clips, output, outfile>>

\* the search call's arguments, once search has returned and its frame is gone
SearchFrameGone ==
    /\ disk' = NoDisk
    /\ files' = <<>>
    /\ query' = <<>>
    /\ search_type' = "sentence"
    /\ word_content' = <<>>
    /\ context_aware' = FALSE

\* videogrep(), lines 585-589: no segment found
VgNoResults ==
    /\ pc = "search"
    /\ raised = "none"
    /\ Len(segments) = 0
    /\ SearchFrameGone
    /\ ret' = "False"
    /\ pc' = "vg_returned"
    /\ UNCHANGED <<in_segments, padding, resync, random_order, maxclips, segments, raised,
                   exporter, demo, export_clips, output, outfile>>

\* videogrep(), line 593: segments = pad_and_sync(segments, padding, resync)
VgPadAndSync ==
    /\ pc = "search"
    /\ raised = "none"
    /\ Len(segments) # 0
    /\ SearchFrameGone
    /\ \E pad \in Paddings, shift \in Resyncs :
        /\ padding' = pad
        /\ resync' = shift
        /\ segments' = pad_and_sync(segments, pad, shift)
    /\ in_segments' = segments
    /\ pc' = "vg_padded"
    /\ UNCHANGED <<random_order, maxclips, raised, exporter, ret,
                   demo, export_clips, output, outfile>>

ShuffleOrders(n) == {p \in [1..n -> 1..n] : \A i, j \in 1..n : p[i] = p[j] => i = j}

\* videogrep(), lines 596-597: random.shuffle(segments) when random_order is set
VgShuffle ==
    /\ pc = "vg_padded"
    /\ \E ro \in BOOLEAN :
        /\ random_order' = ro
        /\ IF ro
           THEN /\ Len(segments) <= MaxShuffle
                /\ \E p \in ShuffleOrders(Len(segments)) :
                      segments' = [i \in DOMAIN segments |-> segments[p[i]]]
           ELSE segments' = segments
    /\ in_segments' = segments
    /\ padding' = 0
    /\ resync' = 0
    /\ pc' = "vg_ordered"
    /\ UNCHANGED <<disk, files, query, search_type, word_content, context_aware, maxclips,
                   raised, exporter, ret,
                   demo, export_clips, output, outfile>>

\* a truncation that keeps the last n segments instead of the first n
SliceFromEnd(l, n) == SubSeq(l, IF n < Len(l) THEN Len(l) - n + 1 ELSE 1, Len(l))

\* segments[0:n]
Slice(l, n) == SubSeq(l, 1, IF n < Len(l) THEN n ELSE Len(l))

\* videogrep(), lines 600-601: segments = segments[0:maxclips] when maxclips != 0
VgMaxClips ==
    /\ pc = "vg_ordered"
    /\ \E mc \in 0..MaxClips :
        /\ maxclips' = mc
        /\ segments' = IF mc # 0 THEN Slice(segments, mc) ELSE segments
    /\ in_segments' = segments
    /\ pc' = "vg_composed"
    /\ UNCHANGED <<disk, files, query, search_type, word_content, context_aware, padding,
                   resync, random_order, raised, exporter, ret,
                   demo, export_clips, output, outfile>>

OutputKinds == {".m3u", ".mpv.edl", ".xml", ".mp4"}

\* the exporter videogrep() chooses (lines 604-633)
ChosenExporter(d, ec, o, n) ==
    IF d THEN "demo"
    ELSE IF ec THEN "export_individual_clips"
    ELSE IF o = ".m3u" THEN "export_m3u"
    ELSE IF o = ".mpv.edl" THEN "export_mpv_edl"
    ELSE IF o = ".xml" THEN "export_xml"
    ELSE IF n > BATCH_SIZE THEN "create_supercut_in_batches"
    ELSE "create_supercut"

\* the exception of the call videogrep() makes: export_mpv_edl and export_xml
\* take (composition, outputfile) and are called with a third argument, pause
ExporterCall(e) == IF e \in {"export_mpv_edl", "export_xml"} THEN "TypeError" ELSE "none"

\* what videogrep() returns after the exporter: True, or nothing after a supercut
ExporterReturn(e) ==
    IF e \in {"create_supercut", "create_supercut_in_batches"} THEN "None" ELSE "True"

\* export_m3u: per segment the file with its start-time and stop-time options
export_m3u(composition) ==
    [i \in DOMAIN composition |->
        <<composition[i].file, composition[i].start, composition[i].end>>]

\* export_mpv_edl: per segment the line "file,start,length"
export_mpv_edl(composition) ==
    [i \in DOMAIN composition |->
        <<composition[i].file, composition[i].start,
          composition[i].end - composition[i].start>>]

\* the entries the body of the exporter e writes to the output file; demo and
\* the renderers write no entries
ExporterWrites(e, composition) ==
    IF e = "export_m3u" THEN export_m3u(composition)
    ELSE IF e = "export_mpv_edl" THEN export_mpv_edl(composition)
    ELSE <<>>

\* videogrep(), lines 604-633: hand the composition to an exporter
VgExport ==
    /\ pc = "vg_composed"
    /\ \E d \in BOOLEAN, ec \in BOOLEAN, o \in OutputKinds :
        LET e == ChosenExporter(d, ec, o, Len(segments))
        IN  /\ demo' = d
            /\ export_clips' = ec
            /\ output' = o
            /\ exporter' = e
            /\ raised' = ExporterCall(e)
            /\ ret' = IF ExporterCall(e) = "none" THEN ExporterReturn(e) ELSE "none"
            /\ outfile' = IF ExporterCall(e) = "none" THEN ExporterWrites(e, segments)
                          ELSE <<>>
    /\ pc' = "vg_returned"
    /\ UNCHANGED <<disk, files, query, search_type, word_content, context_aware,
                   in_segments, padding, resync, random_order, maxclips, segments>>

Next ==
    \/ Search
    \/ VgNoResults
    \/ VgPadAndSync
    \/ VgShuffle
    \/ VgMaxClips
    \/ VgExport
    \/ CallPadAndSync
    \/ CallPadAndSyncAgain
    \/ CallRemoveOverlaps

Spec == Init /\ [][Next]_vars

----------------------------------------------------------------------------
(* Properties: vocabulary *)

\* pad_and_sync has returned `segments` for (in_segments, padding, resync)
PadReturned == pc \in {"pad_and_sync", "pad_and_sync_again", "vg_padded"}

SameFile(l, i, j) == l[i].file = l[j].file

WellFormed(l) == \A i \in DOMAIN l : l[i].start <= l[i].end

\* per-file, start-ascending order, as search hands it over
RunsAscending(l) ==
    \A i \in 1..(Len(l) - 1) : SameFile(l, i, i + 1) => l[i].start <= l[i + 1].start

\* no segment starts at or before the end of a same-file predecessor
NoSameFileTouch(l) ==
    \A i \in 1..(Len(l) - 1) : SameFile(l, i, i + 1) => l[i].end < l[i + 1].start

\* segment i opens a run of consecutive same-file segments
FileChangeAt(l, i) == i = 1 \/ l[i].file # l[i - 1].file

\* the number of the run segment i lies in
RunOf(l, i) == Cardinality({k \in 1..i : FileChangeAt(l, k)})

\* the time a list covers, in half ticks (so that the gap between t and t+1 counts)
Covered(l) == UNION {(2 * l[i].start)..(2 * l[i].end) : i \in DOMAIN l}

----------------------------------------------------------------------------
(* C1..C7: the interval normalizer and the composition *)

\* C1: every segment of the composition built by search followed by pad_and_sync
\* satisfies 0 <= start <= end, whatever the list of files (a file may be listed
\* twice), the search mode, the padding >= 0 and the resync.
C1_CompositionStartBeforeEnd ==
    pc = "vg_padded" =>
        \A i \in DOMAIN segments : 0 <= segments[i].start /\ segments[i].start <= segments[i].end

\* C2: without random ordering, in the composition of search followed by
\* pad_and_sync every two neighbouring segments of one file have non-decreasing
\* starts and the first ends before the second starts.
C2_RunsOrderedAndDisjoint ==
    pc = "vg_padded" =>
        \A i \in 1..(Len(segments) - 1) :
            SameFile(segments, i, i + 1) =>
                /\ segments[i].start <= segments[i + 1].start
                /\ segments[i].end < segments[i + 1].start

\* C3: the file-aware merge of pad_and_sync loses no covered time: every input
\* interval (after padding, shift and clamping) lies inside an output segment of
\* the same file.
C3_NoCoveredTimeLost ==
    (PadReturned /\ WellFormed(in_segments) /\ RunsAscending(in_segments)) =>
        LET adj == Adjusted(in_segments, padding, resync)
        IN  \A i \in DOMAIN adj : \E j \in DOMAIN segments :
                /\ segments[j].file = adj[i].file
                /\ segments[j].start <= adj[i].start
                /\ adj[i].end <= segments[j].end

\* C4: pad_and_sync never merges segments of different files: the output has the
\* input's runs of files (consecutive repeats collapsed at most), a segment whose
\* file differs from its predecessor's opens a new output segment with its own
\* start, and the start and the end of every output segment come from input
\* segments of its own run.
C4_NoCrossFileMerge ==
    PadReturned =>
        LET adj == Adjusted(in_segments, padding, resync)
        IN  /\ (Len(segments) = 0) = (Len(adj) = 0)
            /\ \A i \in DOMAIN adj : FileChangeAt(adj, i) =>
                  \E j \in DOMAIN segments :
                      /\ FileChangeAt(segments, j)
                      /\ RunOf(segments, j) = RunOf(adj, i)
                      /\ segments[j].file = adj[i].file
                      /\ segments[j].start = adj[i].start
            /\ \A j \in DOMAIN segments :
                  /\ \E i \in DOMAIN adj :
                      /\ RunOf(adj, i) = RunOf(segments, j)
                      /\ adj[i].file = segments[j].file
                      /\ adj[i].start = segments[j].start
                  /\ \E i \in DOMAIN adj :
                      /\ RunOf(adj, i) = RunOf(segments, j)
                      /\ adj[i].file = segments[j].file
                      /\ adj[i].end = segments[j].end

\* two overlapping segments of different files went in and both came out
C4_Witness ==
    /\ pc = "pad_and_sync"
    /\ Len(in_segments) = 2
    /\ in_segments[1].file # in_segments[2].file
    /\ in_segments[1].start < in_segments[2].start
    /\ in_segments[2].start < in_segments[1].end
    /\ Len(segments) = 2

\* C5: no segment returned by pad_and_sync has a negative start or end; a value
\* that padding and shift make negative is clamped to 0 (the segment {0,2} padded
\* by 1 becomes {0,3}).
C5_NeverNegative ==
    PadReturned =>
        /\ \A i \in DOMAIN segments : segments[i].start >= 0 /\ segments[i].end >= 0
        /\ (in_segments = <<Seg("a", 0, 2, Text)>> /\ padding = 1 /\ resync = 0) =>
              segments = <<Seg("a", 0, 3, Text)>>

\* a negative resync larger than the segment's times: both values were clamped
C5_Witness ==
    /\ pc = "pad_and_sync"
    /\ Len(in_segments) = 1
    /\ in_segments[1].start - padding + resync < 0
    /\ in_segments[1].end + padding + resync < 0
    /\ segments = <<[in_segments[1] EXCEPT !.start = 0, !.end = 0]>>

\* C6 as stated: with padding = 0 and resync = 0 pad_and_sync is the identity.
C6_Identity ==
    (pc = "pad_and_sync" /\ padding = 0 /\ resync = 0
        /\ WellFormed(in_segments) /\ RunsAscending(in_segments)) =>
        segments = in_segments

\* C6 amended: with padding = 0 and resync = 0 pad_and_sync applied to its own
\* output changes nothing, and it returns its input unchanged when no segment
\* starts at or before the end of a same-file predecessor.
C6_IdempotentIdentityOnMerged ==
    /\ (pc = "pad_and_sync_again" /\ padding = 0 /\ resync = 0) => segments = in_segments
    /\ (PadReturned /\ padding = 0 /\ resync = 0 /\ NoSameFileTouch(in_segments)) =>
          segments = in_segments

\* the second call got a list of two segments of one file and returned it as it was
C6_Witness ==
    /\ pc = "pad_and_sync_again"
    /\ padding = 0
    /\ resync = 0
    /\ Len(in_segments) = 2
    /\ in_segments[1].file = in_segments[2].file
    /\ segments = in_segments

\* C7: remove_overlaps returns segments sorted by start that cover exactly the
\* time its input covers.
C7_RemoveOverlapsKeepsCover ==
    (pc = "remove_overlaps" /\ WellFormed(in_segments)) =>
        /\ \A i \in 1..(Len(segments) - 1) : segments[i].start <= segments[i + 1].start
        /\ Covered(segments) = Covered(in_segments)

----------------------------------------------------------------------------
(* C8..C10: the search engine *)

\* the whitespace-separated sub-terms of a query (the non-empty pieces between
\* runs of spaces and tabs)
RECURSIVE SubTermsAcc(_, _, _)
SubTermsAcc(s, cur, acc) ==
    LET closed == IF cur # <<>> THEN Append(acc, cur) ELSE acc
    IN  IF s = <<>> THEN closed
        ELSE IF IsSpace(Head(s)) THEN SubTermsAcc(Tail(s), <<>>, closed)
        ELSE SubTermsAcc(Tail(s), Append(cur, Head(s)), acc)

SubTerms(q) == SubTermsAcc(q, <<>>, <<>>)

RECURSIVE AllSubTerms(_)
AllSubTerms(qs) == IF qs = <<>> THEN <<>> ELSE SubTerms(Head(qs)) \o AllSubTerms(Tail(qs))

\* the file has a transcript with word-level timing
Worded(f) == disk[f].found /\ Len(disk[f].lines) > 0 /\ disk[f].lines[1].has_words

\* the words of the file's transcript, in order
Stream(f) == WordStream(disk[f].lines)

\* how often the file is searched with word-level timing
Occurrences(f) == Cardinality({i \in DOMAIN files : files[i] = f /\ Worded(f)})

SegmentsOf(f) == {j \in DOMAIN segments : segments[j].file = f}

HasMatch(words, t) == \E i \in DOMAIN words : Lower(words[i].word) = Lower(t)

\* C8: in mash mode, if a sub-term of a query has no case-insensitive exact match
\* in the word stream of a searched file, search returns the empty list; otherwise
\* every searched file yields exactly one single-word segment per sub-term, whose
\* content equals the sub-term case-insensitively.
C8_MashAllOrNothing ==
    (pc = "search" /\ search_type = "mash" /\ raised = "none") =>
        LET terms == AllSubTerms(query)
        IN  IF \E i \in DOMAIN files, k \in DOMAIN terms :
                    Worded(files[i]) /\ ~HasMatch(Stream(files[i]), terms[k])
            THEN segments = <<>>
            ELSE \A f \in FileNames :
                    /\ Cardinality(SegmentsOf(f)) = Occurrences(f) * Len(terms)
                    /\ \A j \in SegmentsOf(f) : \E i \in DOMAIN Stream(f) :
                          segments[j] = Seg(f, Stream(f)[i].start, Stream(f)[i].end,
                                            Stream(f)[i].word)
                    /\ \A k \in DOMAIN terms :
                          Cardinality({j \in SegmentsOf(f) :
                                          Lower(segments[j].content) = Lower(terms[k])})
                          = Occurrences(f)
                            * Cardinality({k2 \in DOMAIN terms :
                                              Lower(terms[k2]) = Lower(terms[k])})

\* the windows of the file's word stream that the queries match: <<q, j>> stands
\* for query number q matching the words j+1 .. j+k, k the number of its sub-terms
Hits(f) ==
    {h \in (DOMAIN query) \X (0..Len(Stream(f))) :
        LET t == SubTerms(query[h[1]])
        IN  /\ Len(t) >= 1
            /\ h[2] + Len(t) <= Len(Stream(f))
            /\ \A i \in 1..Len(t) : ReSearch(t[i], Stream(f)[h[2] + i].word)}

\* the segment of a matching window: first word's start, last word's end, the
\* words joined by single spaces
HitSegment(f, h) ==
    LET k == Len(SubTerms(query[h[1]]))
    IN  Seg(f, Stream(f)[h[2] + 1].start, Stream(f)[h[2] + k].end,
            Join([i \in 1..k |-> Stream(f)[h[2] + i].word]))

\* C9: in fragment mode the segments of a file are exactly one per query and per
\* window of k consecutive words in which the i-th of the query's k
\* whitespace-separated sub-terms matches the i-th word (overlapping windows
\* included), each running from the first word's start to the last word's end
\* with the k words joined by single spaces as content.
C9_FragmentWindows ==
    (pc = "search" /\ search_type = "fragment" /\ raised = "none") =>
        \A f \in FileNames :
            /\ Cardinality(SegmentsOf(f)) = Occurrences(f) * Cardinality(Hits(f))
            /\ \A j \in SegmentsOf(f) : \E h \in Hits(f) : segments[j] = HitSegment(f, h)
            /\ \A h \in Hits(f) :
                  Cardinality({j \in SegmentsOf(f) : segments[j] = HitSegment(f, h)})
                  = Occurrences(f)
                    * Cardinality({h2 \in Hits(f) : HitSegment(f, h2) = HitSegment(f, h)})

\* a file search is to skip: no transcript, a transcript without lines, or (in
\* fragment and mash mode) a transcript without word-level timing
Skipped(f) ==
    \/ ~disk[f].found
    \/ Len(disk[f].lines) = 0
    \/ /\ search_type \in {"fragment", "mash"}
       /\ \A i \in DOMAIN disk[f].lines : ~disk[f].lines[i].has_words

\* C10: a file that is to be skipped raises no error and contributes nothing:
\* search ends as it can end for the list without the skipped files, with the
\* same segments in the same order.
C10_SkipAndContinue ==
    pc = "search" =>
        [raised |-> raised, segments |-> segments]
            \in search(disk, SelectSeq(files, LAMBDA f : ~Skipped(f)), query, search_type,
                       word_content, context_aware)

----------------------------------------------------------------------------
(* Truncation to maxclips *)

\* how many times x occurs in the list l
Count(l, x) == Cardinality({i \in DOMAIN l : l[i] = x})

\* l and m hold the same segments, each as many times, in any order
SameSegments(l, m) ==
    /\ Len(l) = Len(m)
    /\ \A i \in DOMAIN l : Count(l, l[i]) = Count(m, l[i])

Min(a, b) == IF a < b THEN a ELSE b

\* C11: with a cap maxclips > 0 the final composition of videogrep has at most
\* maxclips segments and is exactly the first maxclips segments of the sequence
\* that pad_and_sync returned and the optional shuffle reordered (the order is
\* that of pad_and_sync when random_order is not set, one of its rearrangements
\* when it is); with maxclips = 0 no segment is dropped.
C11_MaxClipsTruncates ==
    /\ pc = "vg_ordered" =>
          /\ SameSegments(segments, in_segments)
          /\ ~random_order => segments = in_segments
    /\ pc = "vg_composed" =>
          /\ maxclips > 0 =>
                /\ Len(segments) <= maxclips
                /\ Len(segments) = Min(maxclips, Len(in_segments))
                /\ \A i \in DOMAIN segments : segments[i] = in_segments[i]
          /\ maxclips = 0 => segments = in_segments

\* a shuffled sequence that is longer than the cap, and whose first segment is
\* not the earliest, has been cut to the cap
C11_Witness ==
    /\ pc = "vg_composed"
    /\ random_order
    /\ maxclips > 0
    /\ Len(in_segments) > maxclips
    /\ Len(segments) = maxclips
    /\ \E i \in DOMAIN in_segments : in_segments[i].start < in_segments[1].start

----------------------------------------------------------------------------
(* Context expansion: the calls of content_aware_segments that search makes *)

\* a call content_aware_segments(segs, T, file, idx) and what it returned
CtxCall(segs, T, file, idx) ==
    [segments |-> segs, transcript |-> T, file |-> file, idx |-> idx,
     result |-> content_aware_segments(segs, T, file, idx)]

\* the calls made for line idx, with the patterns pats left to try and the
\* running list segs (lines 265-293 with context_aware set)
RECURSIVE CallsOnLine(_, _, _, _, _)
CallsOnLine(segs, T, file, idx, pats) ==
    IF pats = <<>> THEN {}
    ELSE IF ReSearch(Strip(Lower(Head(pats))), PyLine(T, idx).content)
    THEN LET line == PyLine(T, idx)
             c == CtxCall(Append(segs, Seg(file, line.start, line.end, line.content)),
                          T, file, idx)
         IN  {c} \cup (IF c.result.raised # "none" THEN {}
                        ELSE CallsOnLine(c.result.segments, T, file, idx, Tail(pats)))
    ELSE CallsOnLine(segs, T, file, idx, Tail(pats))

\* the calls made from line idx on (line 264)
RECURSIVE CallsOnLines(_, _, _, _, _)
CallsOnLines(segs, T, file, idx, pats) ==
    IF idx >= Len(T) THEN {}
    ELSE LET r == SentencePatterns(segs, T, file, idx, pats, TRUE)
         IN  CallsOnLine(segs, T, file, idx, pats)
                \cup (IF r.raised # "none" THEN {}
                      ELSE CallsOnLines(r.segments, T, file, idx + 1, pats))

\* the calls made for the files fl, up to the first call that raises (line 257)
RECURSIVE CallsOnFiles(_, _, _, _)
CallsOnFiles(d, fl, q, wc) ==
    IF fl = <<>> THEN {}
    ELSE IF ~d[Head(fl)].found THEN CallsOnFiles(d, Tail(fl), q, wc)
    ELSE LET T == d[Head(fl)].lines
             r == SentenceLines(<<>>, T, Head(fl), 0, q, wc, TRUE)
         IN  CallsOnLines(<<>>, T, Head(fl), 0, q \o wc)
                \cup (IF r.raised # "none" THEN {} ELSE CallsOnFiles(d, Tail(fl), q, wc))

\* the calls of the search that has just ended
CtxCalls ==
    IF pc = "search" /\ search_type = "sentence" /\ context_aware
    THEN CallsOnFiles(disk, files, query, word_content)
    ELSE {}

Returned(c) == c.result.raised = "none"

\* the segments the call c put into the running list: those the returned list
\* holds more often than the list the call was given
Inserted(c) ==
    {c.result.segments[k] : k \in {j \in DOMAIN c.result.segments :
        Count(c.result.segments, c.result.segments[j])
            > Count(c.segments, c.result.segments[j])}}

StartsAt(l, t) == {j \in DOMAIN l : l[j].start = t}

LastIdx(c) == Len(c.transcript) - 1

SameLine(x, line) ==
    x.start = line.start /\ x.end = line.end /\ x.content = line.content

\* C12: context expansion never creates a duplicate: a segment that
\* content_aware_segments inserts has a start that no segment of the running
\* list had before (the segment of the matched line included), so after the
\* call it is the only segment of the list with that start.
C12_ContextNoDuplicate ==
    \A c \in CtxCalls :
        Returned(c) =>
            \A x \in Inserted(c) :
                Cardinality(StartsAt(c.result.segments, x.start)) = 1

\* C13: a hit on the first line gets no "before" segment and a hit on the last
\* line no "after" segment, and in both cases the call returns without an
\* error (no line outside the transcript is read, and the first line's
\* "before" neighbour is not the last line).
C13_FirstAndLastLine ==
    \A c \in CtxCalls :
        /\ c.idx = 0 =>
              /\ c.idx < LastIdx(c) => Returned(c)
              /\ Returned(c) => \A x \in Inserted(c) : x.position # "before"
        /\ c.idx = LastIdx(c) =>
              /\ Returned(c)
              /\ \A x \in Inserted(c) : x.position # "after"

\* C14: for a hit on line i, an inserted "before" segment has the start, end
\* and content of line i-1 and an inserted "after" segment those of line i+1;
\* both carry the file of the hit and the context flag.
C14_NeighbourContent ==
    \A c \in CtxCalls :
        Returned(c) =>
            \A x \in Inserted(c) :
                /\ x.file = c.file
                /\ x.content_aware
                /\ x.position \in {"before", "after"}
                /\ (x.position = "before" /\ c.idx >= 1) =>
                        SameLine(x, PyLine(c.transcript, c.idx - 1))
                /\ (x.position = "after" /\ c.idx < LastIdx(c)) =>
                        SameLine(x, PyLine(c.transcript, c.idx + 1))

----------------------------------------------------------------------------
(* Exporter dispatch *)

\* videogrep has handed its composition to an exporter and is over
Handed == pc = "vg_returned" /\ exporter # "none"

\* the exporter that the order demo, individual clips, playlist, edit-decision
\* list, interchange, rendered supercut selects
InOrder ==
    IF demo THEN exporter = "demo"
    ELSE IF export_clips THEN exporter = "export_individual_clips"
    ELSE /\ output = ".m3u" => exporter = "export_m3u"
         /\ output = ".mpv.edl" => exporter = "export_mpv_edl"
         /\ output = ".xml" => exporter = "export_xml"
         /\ output = ".mp4" =>
                exporter \in {"create_supercut", "create_supercut_in_batches"}

\* the output file has one entry per segment, in the order of the composition:
\* file, start and end for the playlist, file, start and length for the
\* edit-decision list
OneEntryPerSegment ==
    /\ Len(outfile) = Len(segments)
    /\ \A i \in DOMAIN segments :
          /\ outfile[i][1] = segments[i].file
          /\ outfile[i][2] = segments[i].start
          /\ outfile[i][3] = IF exporter = "export_m3u" THEN segments[i].end
                             ELSE segments[i].end - segments[i].start

\* C15: a non-empty final composition goes to the one exporter the order
\* selects, and for the playlist, edit-decision-list and interchange outputs
\* the call succeeds: no error is raised, videogrep returns True, and the
\* playlist and the edit-decision list hold one entry per segment in
\* composition order.
C15_ExporterSucceeds ==
    Handed =>
        /\ Len(segments) > 0
        /\ InOrder
        /\ exporter \in {"export_m3u", "export_mpv_edl", "export_xml"} =>
              /\ raised = "none"
              /\ ret = "True"
              /\ exporter # "export_xml" => OneEntryPerSegment

====
